---- MODULE Spec2Model ----
(***************************************************************************)
(* A model of qpageview's rectangles.Rectangles: a dictionary of objects   *)
(* with their rectangles (_items) and four lazily built, incrementally     *)
(* maintained lists sorted on one side's coordinate (_index).              *)
(*                                                                         *)
(* Every method is a pure operator of the instance's state (it, ix) that   *)
(* computes what the Python code computes, in the order it computes it,    *)
(* and returns the value returned together with the new state; the actions *)
(* apply the methods to the instance.                                      *)
(***************************************************************************)
EXTENDS Integers, Sequences, FiniteSets

(***************************************************************************)
(* Bounds of the model.                                                    *)
(***************************************************************************)
\* the objects a caller has: 1..NumObjects
NumObjects == 3
\* the coordinates queries are made with: 0..MaxCoord
MaxCoord == 2
\* the longest batch handed to bulk_add or to the constructor
MaxBatch == 2

Objects == 1..NumObjects
QueryCoords == 0..MaxCoord

(***************************************************************************)
(* The sides (rectangles.py, lines 29-32).                                 *)
(***************************************************************************)
Left == 0
Top == 1
Right == 2
Bottom == 3
Sides == {Left, Top, Right, Bottom}

(***************************************************************************)
(* get_coords(obj), which the subclass implements: (x, y, x2, y2) with     *)
(* x < x2 and y < y2, the same for an object every time it is asked.       *)
(* The caller modelled here has these rectangles; the first two are the    *)
(* specification's example A=(0,0,10,10), B=(20,20,30,30) in units of 10.  *)
(***************************************************************************)
RectTable ==
    << <<0, 0, 1, 1>>,
       <<2, 2, 3, 3>>,
       <<-1, -1, 1, 0>>,
       <<0, 2, 1, 3>>,
       <<0, 0, 3, 3>>,
       <<2, 0, 3, 1>> >>

get_coords(obj) == RectTable[((obj - 1) % Len(RectTable)) + 1]

\* coords[side], Python's 0-based subscript of the 4-tuple
Coord(coords, side) == coords[side + 1]

(***************************************************************************)
(* Python lists as sequences: helpers for 0-based positions.               *)
(***************************************************************************)
ToSet(s) == {s[k] : k \in 1..Len(s)}

\* list.insert(i, v)
ListInsert(s, i, v) == SubSeq(s, 1, i) \o <<v>> \o SubSeq(s, i + 1, Len(s))

\* del list[i]
ListDel(s, i) == SubSeq(s, 1, i) \o SubSeq(s, i + 2, Len(s))

\* list.index(v): the 0-based position of the first v; -1 stands for ValueError
ListIndex(s, v) ==
    IF v \in ToSet(s)
    THEN (CHOOSE k \in 1..Len(s) : s[k] = v /\ \A j \in 1..(k - 1) : s[j] # v) - 1
    ELSE -1

(***************************************************************************)
(* bisect.bisect_left and bisect.bisect_right, as the library's binary     *)
(* search runs them (so that they are defined on any list, sorted or not). *)
(***************************************************************************)
RECURSIVE bisect_left_loop(_, _, _, _)
bisect_left_loop(a, x, lo, hi) ==
    IF lo < hi
    THEN LET mid == (lo + hi) \div 2
         IN  IF a[mid + 1] < x
             THEN bisect_left_loop(a, x, mid + 1, hi)
             ELSE bisect_left_loop(a, x, lo, mid)
    ELSE lo

bisect_left(a, x) == bisect_left_loop(a, x, 0, Len(a))

RECURSIVE bisect_right_loop(_, _, _, _)
bisect_right_loop(a, x, lo, hi) ==
    IF lo < hi
    THEN LET mid == (lo + hi) \div 2
         IN  IF x < a[mid + 1]
             THEN bisect_right_loop(a, x, lo, mid)
             ELSE bisect_right_loop(a, x, mid + 1, hi)
    ELSE lo

bisect_right(a, x) == bisect_right_loop(a, x, 0, Len(a))

(***************************************************************************)
(* The state of a Rectangles instance.                                     *)
(*   items: self._items, a dict: the sequence of its (key, value) pairs in *)
(*          insertion order, which is the order items() iterates in;       *)
(*   index: self._index, a dict side -> (indices, objects); a side that is *)
(*          no key of the dict is not present.                             *)
(*   exc:   the exception the last call raised and the method that raised  *)
(*          it, NoExc when the call returned.                              *)
(* A method's operator returns, with the new state, what the method        *)
(* returns: ret is a set of objects ({} for None, {o} for the object o).   *)
(***************************************************************************)
VARIABLES items, index, exc

vars == <<items, index, exc>>

NoExc == <<"", "">>
Raised(method, type) == IF type = "" THEN NoExc ELSE <<method, type>>

Absent == [present |-> FALSE, indices |-> <<>>, objects |-> <<>>]
NoIndex == [side \in Sides |-> Absent]

Keys(it) == {it[k].obj : k \in 1..Len(it)}

\* self._items[obj] for a key of the dict
ItemCoords(it, obj) == it[CHOOSE k \in 1..Len(it) : it[k].obj = obj].coords

(***************************************************************************)
(* list.sort(key=operator.itemgetter(0)) on a list of (coordinate, object) *)
(* pairs: a stable sort on the coordinate.                                 *)
(***************************************************************************)
RECURSIVE StableInsert(_, _)
StableInsert(sorted, e) ==
    IF sorted = <<>> THEN <<e>>
    ELSE IF e[1] < Head(sorted)[1] THEN <<e>> \o sorted
    ELSE <<Head(sorted)>> \o StableInsert(Tail(sorted), e)

RECURSIVE StableSort(_)
StableSort(pairs) ==
    IF pairs = <<>> THEN <<>>
    ELSE StableInsert(StableSort(SubSeq(pairs, 1, Len(pairs) - 1)), pairs[Len(pairs)])

(***************************************************************************)
(* _sorted(side): the cached (indices, objects) of the side, built from    *)
(* the items when the side is not in the index.                            *)
(***************************************************************************)
BuildSide(it, side) ==
    IF it # <<>>
    THEN LET objects == StableSort([k \in 1..Len(it) |-> <<Coord(it[k].coords, side), it[k].obj>>])
         IN  [present |-> TRUE,
              indices |-> [k \in 1..Len(objects) |-> objects[k][1]],
              objects |-> [k \in 1..Len(objects) |-> objects[k][2]]]
    ELSE [present |-> TRUE, indices |-> <<>>, objects |-> <<>>]

_sorted(it, ix, side) ==
    IF ix[side].present
    THEN [val |-> ix[side], index |-> ix]
    ELSE LET result == BuildSide(it, side)
         IN  [val |-> result, index |-> [ix EXCEPT ![side] = result]]

(***************************************************************************)
(* _smaller(side, value) and _larger(side, value).                         *)
(***************************************************************************)
\* _smaller with bisect_left: the objects at the value itself are left out
_smaller_left(it, ix, side, value) ==
    LET s == _sorted(it, ix, side)
        i == bisect_left(s.val.indices, value)
    IN  [ret |-> SubSeq(s.val.objects, 1, i), index |-> s.index]

_smaller(it, ix, side, value) ==
    LET s == _sorted(it, ix, side)
        i == bisect_right(s.val.indices, value)
    IN  [ret |-> SubSeq(s.val.objects, 1, i), index |-> s.index]

\* _larger with bisect_right: the objects at the value itself are left out
_larger_right(it, ix, side, value) ==
    LET s == _sorted(it, ix, side)
        i == bisect_right(s.val.indices, value)
    IN  [ret |-> SubSeq(s.val.objects, i + 1, Len(s.val.objects)), index |-> s.index]

_larger(it, ix, side, value) ==
    LET s == _sorted(it, ix, side)
        i == bisect_left(s.val.indices, value)
    IN  [ret |-> SubSeq(s.val.objects, i + 1, Len(s.val.objects)), index |-> s.index]

(***************************************************************************)
(* _test: every test is a three tuple (method, side, value).               *)
(***************************************************************************)
Smaller(side, value) == [meth |-> "_smaller", side |-> side, value |-> value]
Larger(side, value) == [meth |-> "_larger", side |-> side, value |-> value]

Meth(it, ix, t) ==
    IF t.meth = "_smaller"
    THEN _smaller(it, ix, t.side, t.value)
    ELSE _larger(it, ix, t.side, t.value)

\* the loop without its break: every test is evaluated
RECURSIVE TestLoop_no_break(_, _, _, _)
TestLoop_no_break(it, ix, result, tests) ==
    IF tests = <<>>
    THEN [ret |-> result, index |-> ix]
    ELSE LET m == Meth(it, ix, Head(tests))
         IN  TestLoop_no_break(it, m.index, result \cap ToSet(m.ret), Tail(tests))

RECURSIVE TestLoop(_, _, _, _)
TestLoop(it, ix, result, tests) ==
    IF tests = <<>>
    THEN [ret |-> result, index |-> ix]
    ELSE LET m == Meth(it, ix, Head(tests))
             r == result \cap ToSet(m.ret)
         IN  IF r = {}
             THEN [ret |-> r, index |-> m.index]
             ELSE TestLoop(it, m.index, r, Tail(tests))

_test(it, ix, tests) ==
    LET m == Meth(it, ix, Head(tests))
        result == ToSet(m.ret)
    IN  IF result # {}
        THEN TestLoop(it, m.index, result, Tail(tests))
        ELSE [ret |-> result, index |-> m.index]

(***************************************************************************)
(* at, inside, intersecting.                                               *)
(***************************************************************************)
\* at with the two tests of each axis exchanged
at_exchanged(it, ix, x, y) ==
    _test(it, ix, <<Larger(Top, y), Smaller(Bottom, y), Larger(Left, x), Smaller(Right, x)>>)

at(it, ix, x, y) ==
    _test(it, ix, <<Smaller(Top, y), Larger(Bottom, y), Smaller(Left, x), Larger(Right, x)>>)

\* inside that tests the Top and Left sides only
inside_top_left(it, ix, left, top, right, bottom) ==
    _test(it, ix, <<Larger(Top, top), Larger(Left, left)>>)

inside(it, ix, left, top, right, bottom) ==
    _test(it, ix, <<Larger(Top, top), Smaller(Bottom, bottom),
                    Larger(Left, left), Smaller(Right, right)>>)

\* intersecting with each side tested against its own value of the query
intersecting_own_side(it, ix, left, top, right, bottom) ==
    _test(it, ix, <<Smaller(Top, top), Larger(Bottom, bottom),
                    Smaller(Left, left), Larger(Right, right)>>)

intersecting(it, ix, left, top, right, bottom) ==
    _test(it, ix, <<Smaller(Top, bottom), Larger(Bottom, top),
                    Smaller(Left, right), Larger(Right, left)>>)

(***************************************************************************)
(* at at a point with halves for coordinates: at(x2 / 2.0, y2 / 2.0).  The *)
(* bisections compare a stored coordinate c with x2 / 2.0, which is the    *)
(* comparison of 2 * c with x2: at is computed on the items and the index  *)
(* with every coordinate doubled, and only the objects are read from it.   *)
(***************************************************************************)
Doubled(it) ==
    [k \in 1..Len(it) |->
        [obj |-> it[k].obj, coords |-> [j \in 1..4 |-> 2 * it[k].coords[j]]]]

DoubledIndex(ix) ==
    [side \in Sides |->
        [present |-> ix[side].present,
         indices |-> [k \in 1..Len(ix[side].indices) |-> 2 * ix[side].indices[k]],
         objects |-> ix[side].objects]]

at_half(it, ix, x2, y2) == at(Doubled(it), DoubledIndex(ix), x2, y2).ret

(***************************************************************************)
(* add(obj): keeps the index intact.                                       *)
(***************************************************************************)
\* add that appends to the lists of a side instead of inserting at i
AddToSide_append(entry, coords, side, obj) ==
    [present |-> TRUE,
     indices |-> Append(entry.indices, Coord(coords, side)),
     objects |-> Append(entry.objects, obj)]

AddToSide(entry, coords, side, obj) ==
    LET i == bisect_left(entry.indices, Coord(coords, side))
    IN  [present |-> TRUE,
         indices |-> ListInsert(entry.indices, i, Coord(coords, side)),
         objects |-> ListInsert(entry.objects, i, obj)]

\* self._items[obj] = coords: a key the dict has keeps its place
DictSet(it, obj, coords) ==
    IF obj \in Keys(it)
    THEN [k \in 1..Len(it) |-> IF it[k].obj = obj THEN [obj |-> obj, coords |-> coords] ELSE it[k]]
    ELSE Append(it, [obj |-> obj, coords |-> coords])

\* add without the test of line 76: an object the items hold is added again
add_unguarded(it, ix, obj) ==
    LET coords == get_coords(obj)
    IN  [items |-> DictSet(it, obj, coords),
         index |-> [side \in Sides |->
                       IF ix[side].present
                       THEN AddToSide(ix[side], coords, side, obj)
                       ELSE ix[side]],
         called |-> <<obj>>]

\* called: the objects get_coords was called for, in the order of the calls
add(it, ix, obj) ==
    IF obj \in Keys(it)
    THEN [items |-> it, index |-> ix, called |-> <<>>]
    ELSE LET coords == get_coords(obj)
         IN  [items |-> DictSet(it, obj, coords),
              index |-> [side \in Sides |->
                            IF ix[side].present
                            THEN AddToSide(ix[side], coords, side, obj)
                            ELSE ix[side]],
              called |-> <<obj>>]

(***************************************************************************)
(* bulk_add(objects): dict.update with (obj, get_coords(obj)) for every    *)
(* obj of the batch, in order; a key the dict has keeps its place.         *)
(***************************************************************************)
RECURSIVE DictUpdate(_, _)
DictUpdate(it, objects) ==
    IF objects = <<>> THEN it
    ELSE DictUpdate(DictSet(it, Head(objects), get_coords(Head(objects))), Tail(objects))

\* bulk_add that clears the index only when the batch names an object
bulk_add_nonempty(it, ix, objects) ==
    [items |-> DictUpdate(it, objects),
     index |-> IF objects # <<>> THEN NoIndex ELSE ix,
     called |-> objects]

\* line 90 calls get_coords for every obj of the batch
bulk_add(it, ix, objects) ==
    [items |-> DictUpdate(it, objects), index |-> NoIndex, called |-> objects]

(***************************************************************************)
(* remove(obj): del self._items[obj] raises KeyError for an object that is *)
(* no key; objects.index(obj) raises ValueError for an object a side of    *)
(* the index does not hold.                                                *)
(***************************************************************************)
DelFromSide(entry, obj) ==
    LET i == ListIndex(entry.objects, obj)
    IN  IF i < 0
        THEN entry
        ELSE [present |-> TRUE,
              indices |-> ListDel(entry.indices, i),
              objects |-> ListDel(entry.objects, i)]

\* lines 96-99, for every side of the index
RemoveFromIndex(ix, obj) ==
    [side \in Sides |-> IF ix[side].present THEN DelFromSide(ix[side], obj) ELSE ix[side]]

\* whether line 97 raises for some side
IndexLacks(ix, obj) ==
    \E side \in Sides : ix[side].present /\ ListIndex(ix[side].objects, obj) < 0

\* remove that updates the index before it deletes from the items
remove_index_first(it, ix, obj) ==
    IF IndexLacks(ix, obj)
    THEN [exc |-> "ValueError", items |-> it, index |-> RemoveFromIndex(ix, obj)]
    ELSE IF obj \notin Keys(it)
    THEN [exc |-> "KeyError", items |-> it, index |-> RemoveFromIndex(ix, obj)]
    ELSE [exc |-> "",
          items |-> ListDel(it, (CHOOSE k \in 1..Len(it) : it[k].obj = obj) - 1),
          index |-> RemoveFromIndex(ix, obj)]

remove(it, ix, obj) ==
    IF obj \notin Keys(it)
    THEN [exc |-> "KeyError", items |-> it, index |-> ix]
    ELSE [exc |-> IF IndexLacks(ix, obj) THEN "ValueError" ELSE "",
          items |-> ListDel(it, (CHOOSE k \in 1..Len(it) : it[k].obj = obj) - 1),
          index |-> RemoveFromIndex(ix, obj)]

(***************************************************************************)
(* clear().                                                                *)
(***************************************************************************)
clear(it, ix) == [items |-> <<>>, index |-> NoIndex]

(***************************************************************************)
(* Python's ^, & and | on the sides (two bits), and objects[start::step].  *)
(***************************************************************************)
Bit(n, k) == (n \div (2 ^ k)) % 2
BitXor(a, b) == ((Bit(a, 0) + Bit(b, 0)) % 2) + 2 * ((Bit(a, 1) + Bit(b, 1)) % 2)
BitAnd(a, b) == (Bit(a, 0) * Bit(b, 0)) + 2 * (Bit(a, 1) * Bit(b, 1))
BitOr(a, b) == (Bit(a, 0) + Bit(b, 0) - Bit(a, 0) * Bit(b, 0))
               + 2 * (Bit(a, 1) + Bit(b, 1) - Bit(a, 1) * Bit(b, 1))

Abs(n) == IF n < 0 THEN 0 - n ELSE n
Min2(a, b) == IF b < a THEN b ELSE a

\* s[start::step] for step 1 or -1: a negative start counts from the end
PySlice(s, start, step) ==
    LET n == Len(s)
        st0 == IF start < 0 THEN start + n ELSE start
    IN  IF step > 0
        THEN LET st == IF st0 < 0 THEN 0 ELSE IF st0 > n THEN n ELSE st0
             IN  SubSeq(s, st + 1, n)
        ELSE LET st == IF st0 < 0 THEN -1 ELSE IF st0 >= n THEN n - 1 ELSE st0
             IN  [k \in 1..(st + 1) |-> s[st + 2 - k]]

(***************************************************************************)
(* closest(obj, side).  The code halves (/ 2.0) the lateral value; here    *)
(* every distance is kept doubled, so that it stays an integer: lat, dlat, *)
(* d, dist and mindist below are twice the code's.                         *)
(*   pos  = coords[side^2]                                                 *)
(*   lat  = (coords[side^1|2] - coords[side^1&2]) / 2.0, which Python      *)
(*          reads as coords[(side^1)|2] - coords[side^(1&2)]               *)
(***************************************************************************)
AnchorSide(side) == BitXor(side, 2)
LatHigh(side) == BitOr(BitXor(side, 1), 2)
LatLow(side) == BitXor(side, BitAnd(1, 2))

Lat(coords, side) == Coord(coords, LatHigh(side)) - Coord(coords, LatLow(side))

\* the for loop over the other objects, with its break
RECURSIVE ClosestScan(_, _, _, _, _, _, _)
ClosestScan(it, others, side, pos, lat, mindist, result) ==
    IF others = <<>>
    THEN result
    ELSE LET other == Head(others)
             coords == ItemCoords(it, other)
             pos1 == Coord(coords, AnchorSide(side))
             d == 2 * Abs(pos1 - pos)
         IN  IF d > mindist
             THEN result
             ELSE LET lat1 == Lat(coords, side)
                      dlat == Abs(lat1 - lat)
                  IN  IF dlat < d
                      THEN ClosestScan(it, Tail(others), side, pos, lat,
                                       Min2(mindist, dlat + d),
                                       Append(result, <<dlat + d, other>>))
                      ELSE ClosestScan(it, Tail(others), side, pos, lat, mindist, result)

\* closest that returns no object for an object that is no key of the items
closest_unmanaged_none(it, ix, obj, side) ==
    [exc |-> "", ret |-> {}, index |-> ix]

closest(it, ix, obj, side) ==
    IF obj \notin Keys(it)
    THEN [exc |-> "KeyError", ret |-> {}, index |-> ix]
    ELSE LET coords == ItemCoords(it, obj)
             pos == Coord(coords, AnchorSide(side))
             lat == Lat(coords, side)
             direction == IF side < Right THEN -1 ELSE 1
             s == _sorted(it, ix, AnchorSide(side))
             i == ListIndex(s.val.objects, obj)
         IN  IF i < 0
             THEN [exc |-> "ValueError", ret |-> {}, index |-> s.index]
             ELSE LET mindist == 2 * s.val.indices[Len(s.val.indices)]
                      result == ClosestScan(it, PySlice(s.val.objects, i + direction, direction),
                                            side, pos, lat, mindist, <<>>)
                  IN  [exc |-> "",
                       ret |-> IF result # <<>> THEN {StableSort(result)[1][2]} ELSE {},
                       index |-> s.index]

(***************************************************************************)
(* nearest(x, y).  center_distance is kept doubled (the code halves the    *)
(* sums).  min(mid, key=center_distance) returns the first object of the   *)
(* set's iteration order with the minimum: any object with the minimum,    *)
(* as a set's order is not the program's to choose.  The other minima are  *)
(* minima of (distance, object) tuples: the objects are ordered (1 < 2).   *)
(***************************************************************************)
\* center_distance that measures the vertical distance only
center_distance_vertical(it, obj, x, y) ==
    LET c == ItemCoords(it, obj)
    IN  Abs(Coord(c, Bottom) + Coord(c, Top) - 2 * y)

center_distance(it, obj, x, y) ==
    LET c == ItemCoords(it, obj)
    IN  Abs(Coord(c, Right) + Coord(c, Left) - 2 * x)
        + Abs(Coord(c, Bottom) + Coord(c, Top) - 2 * y)

\* the distances with the corners measured by their vertical part only
SideDist_corner_vertical(it, name, o, x, y) ==
    LET c == ItemCoords(it, o)
        left == Coord(c, Left) - x
        right == x - Coord(c, Right)
        top == Coord(c, Top) - y
        bottom == y - Coord(c, Bottom)
    IN  CASE name = "left" -> left
          [] name = "right" -> right
          [] name \in {"top", "topleft", "topright"} -> top
          [] name \in {"bottom", "bottomleft", "bottomright"} -> bottom

\* the distances to the sides and corners, by name
SideDist(it, name, o, x, y) ==
    LET c == ItemCoords(it, o)
        left == Coord(c, Left) - x
        right == x - Coord(c, Right)
        top == Coord(c, Top) - y
        bottom == y - Coord(c, Bottom)
    IN  CASE name = "left" -> left
          [] name = "right" -> right
          [] name = "top" -> top
          [] name = "bottom" -> bottom
          [] name = "topleft" -> top + left
          [] name = "topright" -> top + right
          [] name = "bottomleft" -> bottom + left
          [] name = "bottomright" -> bottom + right

\* min() of a non-empty set of (distance, object) tuples
TupleLess(p, q) == p[1] < q[1] \/ (p[1] = q[1] /\ p[2] < q[2])
TupleMin(pairs) == CHOOSE p \in pairs : \A q \in pairs : p = q \/ TupleLess(p, q)

\* the candidate sets without the corners
NearestCandidates_edges(L, R, T, B, rmid, cmid) ==
    << <<"left", L \cap rmid>>, <<"right", R \cap rmid>>,
       <<"top", T \cap cmid>>, <<"bottom", B \cap cmid>> >>

\* the (dist, objs) pairs of lines 214-221
NearestCandidates(L, R, T, B, rmid, cmid) ==
    << <<"left", L \cap rmid>>, <<"right", R \cap rmid>>,
       <<"top", T \cap cmid>>, <<"bottom", B \cap cmid>>,
       <<"topleft", L \cap T>>, <<"topright", R \cap T>>,
       <<"bottomleft", L \cap B>>, <<"bottomright", R \cap B>> >>

\* lines 213-223: the minimum of the minima of the candidate sets that are
\* not empty, or None
NearestResult(it, x, y, cands) ==
    LET result == {TupleMin({<<SideDist(it, cands[k][1], o, x, y), o>> : o \in cands[k][2]}) :
                     k \in {j \in 1..Len(cands) : cands[j][2] # {}}}
    IN  IF result # {} THEN {{TupleMin(result)[2]}} ELSE {{}}

\* lines 196-223: no object contains (x, y)
NearestOutside(it, ix, x, y, rmid, cmid) ==
    LET cleft == _larger(it, ix, Left, x)
        cright == _smaller(it, cleft.index, Right, x)
        rtop == _larger(it, cright.index, Top, y)
        rbottom == _smaller(it, rtop.index, Bottom, y)
    IN  [rets |-> NearestResult(it, x, y,
                      NearestCandidates(ToSet(cleft.ret), ToSet(cright.ret),
                                        ToSet(rtop.ret), ToSet(rbottom.ret), rmid, cmid)),
         index |-> rbottom.index]

\* lines 187-194: min(mid, key=center_distance) when mid is not empty
NearestMid(it, ix, x, y, rmid, cmid) ==
    IF rmid \cap cmid # {}
    THEN [rets |-> {{m} : m \in {o \in rmid \cap cmid : \A n \in rmid \cap cmid :
                        center_distance(it, o, x, y) <= center_distance(it, n, x, y)}},
          index |-> ix]
    ELSE NearestOutside(it, ix, x, y, rmid, cmid)

nearest(it, ix, x, y) ==
    LET rmid == _test(it, ix, <<Smaller(Top, y), Larger(Bottom, y)>>)
        cmid == _test(it, rmid.index, <<Smaller(Left, x), Larger(Right, x)>>)
    IN  NearestMid(it, cmid.index, x, y, rmid.ret, cmid.ret)

(***************************************************************************)
(* The instance and the calls made on it.  A query changes the instance    *)
(* only by the sides of the index it builds; what it returns is the value  *)
(* of its operator in the state it is called in.                           *)
(***************************************************************************)
RECURSIVE SeqsUpTo(_, _)
SeqsUpTo(S, n) ==
    IF n = 0 THEN {<<>>}
    ELSE LET shorter == SeqsUpTo(S, n - 1)
         IN  shorter \cup {Append(q, e) : q \in shorter, e \in S}

\* the batches of objects a caller hands over
Batches == SeqsUpTo(Objects, MaxBatch)

\* the rectangles a caller asks about: (left, top, right, bottom) with
\* left < right and top < bottom, as for the rectangles of the objects
QueryRects ==
    {q \in QueryCoords \X QueryCoords \X QueryCoords \X QueryCoords :
        q[1] < q[3] /\ q[2] < q[4]}

\* __init__(objects): bulk_add is called when objects is given and not empty
Init ==
    \E objects \in Batches :
        /\ items = IF objects # <<>> THEN bulk_add(<<>>, NoIndex, objects).items ELSE <<>>
        /\ index = NoIndex
        /\ exc = NoExc

Add(obj) ==
    LET r == add(items, index, obj)
    IN  /\ items' = r.items
        /\ index' = r.index
        /\ exc' = NoExc

BulkAdd(objects) ==
    LET r == bulk_add(items, index, objects)
    IN  /\ items' = r.items
        /\ index' = r.index
        /\ exc' = NoExc

Remove(obj) ==
    LET r == remove(items, index, obj)
    IN  /\ items' = r.items
        /\ index' = r.index
        /\ exc' = Raised("remove", r.exc)

Clear ==
    LET r == clear(items, index)
    IN  /\ items' = r.items
        /\ index' = r.index
        /\ exc' = NoExc

At(x, y) ==
    /\ index' = at(items, index, x, y).index
    /\ exc' = NoExc
    /\ UNCHANGED items

Inside(left, top, right, bottom) ==
    /\ index' = inside(items, index, left, top, right, bottom).index
    /\ exc' = NoExc
    /\ UNCHANGED items

Intersecting(left, top, right, bottom) ==
    /\ index' = intersecting(items, index, left, top, right, bottom).index
    /\ exc' = NoExc
    /\ UNCHANGED items

Closest(obj, side) ==
    LET r == closest(items, index, obj, side)
    IN  /\ index' = r.index
        /\ exc' = Raised("closest", r.exc)
        /\ UNCHANGED items

Nearest(x, y) ==
    /\ index' = nearest(items, index, x, y).index
    /\ exc' = NoExc
    /\ UNCHANGED items

Next ==
    \/ \E obj \in Objects : Add(obj)
    \/ \E objects \in Batches : BulkAdd(objects)
    \/ \E obj \in Objects : Remove(obj)
    \/ Clear
    \/ \E x, y \in QueryCoords : At(x, y)
    \/ \E q \in QueryRects : Inside(q[1], q[2], q[3], q[4])
    \/ \E q \in QueryRects : Intersecting(q[1], q[2], q[3], q[4])
    \/ \E obj \in Objects, side \in Sides : Closest(obj, side)
    \/ \E x, y \in QueryCoords : Nearest(x, y)

Spec == Init /\ [][Next]_vars

(***************************************************************************)
(* What the claims speak of.                                               *)
(***************************************************************************)
\* the sides of the index that are present
PresentSides == {side \in Sides : index[side].present}

\* the stored coordinate of a managed object on a side
Stored(obj, side) == Coord(ItemCoords(items, obj), side)

\* C1: in every reachable state, whatever sides of the index are absent,
\* lazily built or incrementally maintained, at(x, y) returns exactly the
\* managed objects with Left <= x <= Right and Top <= y <= Bottom.
C1_AtExact ==
    \A x, y \in QueryCoords :
        at(items, index, x, y).ret =
            {o \in Keys(items) :
                /\ Stored(o, Left) <= x /\ x <= Stored(o, Right)
                /\ Stored(o, Top) <= y /\ y <= Stored(o, Bottom)}

\* C2: in every reachable state, intersecting(left, top, right, bottom)
\* returns exactly the managed objects with Top <= bottom, Bottom >= top,
\* Left <= right and Right >= left.
C2_IntersectingExact ==
    \A q \in QueryRects :
        intersecting(items, index, q[1], q[2], q[3], q[4]).ret =
            {o \in Keys(items) :
                /\ Stored(o, Top) <= q[4] /\ Stored(o, Bottom) >= q[2]
                /\ Stored(o, Left) <= q[3] /\ Stored(o, Right) >= q[1]}

\* C3: in every reachable state, inside(left, top, right, bottom) returns
\* exactly the managed objects with Top >= top, Bottom <= bottom,
\* Left >= left and Right <= right.
C3_InsideExact ==
    \A q \in QueryRects :
        inside(items, index, q[1], q[2], q[3], q[4]).ret =
            {o \in Keys(items) :
                /\ Stored(o, Top) >= q[2] /\ Stored(o, Bottom) <= q[4]
                /\ Stored(o, Left) >= q[1] /\ Stored(o, Right) <= q[3]}

\* C4: every side of the index that is present holds exactly one entry for
\* every object of the items, with the coordinate stored for the object on
\* that side, in non-decreasing order of the coordinates.
C4_IndexConsistent ==
    \A side \in PresentSides :
        LET indices == index[side].indices
            objects == index[side].objects
        IN  /\ Len(objects) = Len(items)
            /\ Len(indices) = Len(items)
            /\ ToSet(objects) = Keys(items)
            /\ \A j, k \in 1..Len(objects) : j # k => objects[j] # objects[k]
            /\ \A k \in 1..Len(objects) : indices[k] = Stored(objects[k], side)
            /\ \A k \in 1..(Len(indices) - 1) : indices[k] <= indices[k + 1]

\* the side whose coordinate tells how far an object lies towards a side:
\* Right for Left, Bottom for Top, Left for Right, Top for Bottom
Anchor(side) ==
    CASE side = Left -> Right
      [] side = Top -> Bottom
      [] side = Right -> Left
      [] side = Bottom -> Top

\* C5: for a managed object obj and any side, closest(obj, side) returns no
\* object or a managed object other than obj in the requested direction: its
\* anchor coordinate is not greater than obj's for Left and Top, not smaller
\* for Right and Bottom; also when obj is first or last in the side scanned.
C5_ClosestInDirection ==
    \A obj \in Keys(items), side \in Sides :
        \A o \in closest(items, index, obj, side).ret :
            /\ o \in Keys(items) \ {obj}
            /\ IF side \in {Left, Top}
               THEN Stored(o, Anchor(side)) <= Stored(obj, Anchor(side))
               ELSE Stored(o, Anchor(side)) >= Stored(obj, Anchor(side))

\* twice the distance between the centers of two managed objects across the
\* axis of a side (the vertical centers for Left and Right)
LateralOffset2(obj, o, side) ==
    IF side \in {Left, Right}
    THEN Abs((Stored(o, Top) + Stored(o, Bottom)) - (Stored(obj, Top) + Stored(obj, Bottom)))
    ELSE Abs((Stored(o, Left) + Stored(o, Right)) - (Stored(obj, Left) + Stored(obj, Right)))

\* the gap between obj and an object o towards a side of obj, along the axis
AlongGap(obj, o, side) ==
    CASE side = Left -> Stored(obj, Left) - Stored(o, Right)
      [] side = Top -> Stored(obj, Top) - Stored(o, Bottom)
      [] side = Right -> Stored(o, Left) - Stored(obj, Right)
      [] side = Bottom -> Stored(o, Top) - Stored(obj, Bottom)

\* C6: closest(obj, side) returns a candidate only if the lateral offset (the
\* distance between the two centers across the axis) is strictly smaller
\* than the gap between the two along the axis; with only A = object 1 and
\* B = object 2 managed, closest(A, Right) returns no object.
C6_ClosestLateralLessThanGap ==
    /\ \A obj \in Keys(items), side \in Sides :
           \A o \in closest(items, index, obj, side).ret \cap Keys(items) :
               LateralOffset2(obj, o, side) < 2 * AlongGap(obj, o, side)
    /\ Keys(items) = {1, 2} => closest(items, index, 1, Right).ret = {}

\* whether the rectangle of a managed object contains the point (x, y)
Contains(o, x, y) ==
    /\ Stored(o, Left) <= x /\ x <= Stored(o, Right)
    /\ Stored(o, Top) <= y /\ y <= Stored(o, Bottom)

Max0(a, b) == IF a > 0 \/ b > 0 THEN (IF a > b THEN a ELSE b) ELSE 0

\* the Manhattan distance from the point (x, y) to the rectangle of o
RectDistance(o, x, y) ==
    Max0(Stored(o, Left) - x, x - Stored(o, Right))
    + Max0(Stored(o, Top) - y, y - Stored(o, Bottom))

\* twice the Manhattan distance from the point (x, y) to the center of o
CenterDistance2(o, x, y) ==
    Abs(Stored(o, Left) + Stored(o, Right) - 2 * x)
    + Abs(Stored(o, Top) + Stored(o, Bottom) - 2 * y)

C8_NearestInsideCenter ==
    \A x, y \in QueryCoords :
        (\E o \in Keys(items) : Contains(o, x, y)) =>
            \A val \in nearest(items, index, x, y).rets :
                /\ val # {}
                /\ \A o \in val :
                       /\ o \in Keys(items)
                       /\ Contains(o, x, y)
                       /\ \A p \in Keys(items) :
                              Contains(p, x, y) => CenterDistance2(o, x, y) <= CenterDistance2(p, x, y)

C10_RemoveUnmanaged ==
    \A o \in Objects \ Keys(items) :
        LET r == remove(items, index, o)
        IN  /\ r.exc = "KeyError"
            /\ r.items = items
            /\ r.index = index

(***************************************************************************)
(* States in which the cases of the claims happen.                         *)
(***************************************************************************)
\* a present side whose order is not the order a rebuild from the items
\* gives: the side was built by a query and then maintained by add
MaintainedSides == {side \in PresentSides : index[side] # BuildSide(items, side)}

\* C1: some sides are absent, some present, one of them maintained by add,
\* and at returns some but not all of the managed objects.
C1_Witness ==
    /\ PresentSides # {} /\ PresentSides # Sides
    /\ MaintainedSides # {}
    /\ \E x, y \in QueryCoords :
           at(items, index, x, y).ret \notin {{}, Keys(items)}

\* C2: a query has built the Top side, and intersecting returns an object
\* that only touches the query rectangle (its Left is the query's right)
\* and leaves out another.
C2_Witness ==
    /\ index[Top].present
    /\ \E q \in QueryRects :
           LET r == intersecting(items, index, q[1], q[2], q[3], q[4]).ret
           IN  /\ r # Keys(items)
               /\ \E o \in r : Stored(o, Left) = q[3]

\* C3: all four sides are built, and inside returns an object whose
\* rectangle is the query rectangle and leaves out another.
C3_Witness ==
    /\ PresentSides = Sides
    /\ \E q \in QueryRects :
           LET r == inside(items, index, q[1], q[2], q[3], q[4]).ret
           IN  /\ r # Keys(items)
               /\ \E o \in r : ItemCoords(items, o) = q

\* C4: three objects, all four sides present, one of them maintained by
\* add with two entries of the same coordinate.
C4_Witness ==
    /\ Len(items) >= 3
    /\ PresentSides = Sides
    /\ \E side \in MaintainedSides :
           \E k \in 1..(Len(items) - 1) :
               index[side].indices[k] = index[side].indices[k + 1]

C8_Witness ==
    /\ index[Top].present /\ index[Left].present
    /\ \E x, y \in QueryCoords :
           \E o, p \in Keys(items) :
               /\ Contains(o, x, y) /\ Contains(p, x, y)
               /\ CenterDistance2(o, x, y) < CenterDistance2(p, x, y)
               /\ nearest(items, index, x, y).rets = {{o}}

C10_Witness ==
    /\ exc = <<"remove", "KeyError">>
    /\ items # <<>>
    /\ PresentSides # {}
    /\ C10_RemoveUnmanaged

(***************************************************************************)
(* Coordinates are requested once; add of a managed object.                *)
(***************************************************************************)
\* how often get_coords was called for an object in a sequence of calls
Count(obj, called) == Cardinality({k \in 1..Len(called) : called[k] = obj})

\* C11: the coordinates of an object are computed exactly once between the
\* moment it enters the items and the moment it leaves them: add and
\* bulk_add call get_coords once for every object that enters, and not at
\* all for an object that is managed already, also when the batch names a
\* managed object or names the same object more than once.
C11_CoordsOnce ==
    /\ \A obj \in Objects :
           Count(obj, add(items, index, obj).called)
               = IF obj \in Keys(items) THEN 0 ELSE 1
    /\ \A objects \in Batches : \A obj \in Objects :
           Count(obj, bulk_add(items, index, objects).called)
               = IF obj \in ToSet(objects) \ Keys(items) THEN 1 ELSE 0

\* C12: add of an object that is managed already computes no coordinates
\* and leaves the items, their number and every side of the index, absent
\* or present, as they were; every query, being computed from these, then
\* answers as before.
C12_AddIdempotent ==
    \A obj \in Keys(items) :
        LET r == add(items, index, obj)
        IN  /\ r.called = <<>>
            /\ r.items = items
            /\ Len(r.items) = Len(items)
            /\ r.index = index

\* C12: two objects are managed, some sides are absent and a present side
\* has been maintained by add, so that a second add of either would insert
\* into it.
C12_Witness ==
    /\ Len(items) >= 2
    /\ PresentSides # Sides
    /\ MaintainedSides # {}
    /\ \A obj \in Keys(items) : add(items, index, obj).called = <<>>

(***************************************************************************)
(* bulk_add and clear discard the index; queries on an empty index.        *)
(***************************************************************************)
\* C13: after bulk_add all four sides of the index are absent, whatever the
\* batch (empty, or only managed objects) and whatever sides were built
\* before; after clear the items are empty and all four sides are absent.
\* The next selection on any side therefore finds no side and builds it
\* from the items as the bulk operation left them.
C13_BulkDiscardsIndex ==
    /\ \A objects \in Batches :
           LET r == bulk_add(items, index, objects)
           IN  /\ \A side \in Sides : ~r.index[side].present
               /\ r.index = NoIndex
    /\ LET c == clear(items, index)
       IN  /\ c.items = <<>>
           /\ c.index = NoIndex
           /\ \A side \in Sides :
                  _sorted(c.items, c.index, side).val.objects = <<>>

\* C13: objects are managed and all four sides are present, one of them
\* maintained by add and no longer what a rebuild gives, so that a bulk_add
\* of the empty batch or of managed objects only has sides to discard.
C13_Witness ==
    /\ items # <<>>
    /\ PresentSides = Sides
    /\ MaintainedSides # {}
    /\ \E objects \in Batches :
           /\ objects # <<>>
           /\ ToSet(objects) \subseteq Keys(items)
           /\ bulk_add(items, index, objects).index = NoIndex

\* every rectangle of the grid, degenerate ones included
AllRects == QueryCoords \X QueryCoords \X QueryCoords \X QueryCoords

\* what at, inside, intersecting and nearest return on an empty index
EmptyIndexSelections ==
    /\ \A x, y \in QueryCoords :
           /\ at(items, index, x, y).ret = {}
           /\ nearest(items, index, x, y).rets = {{}}
    /\ \A q \in AllRects :
           /\ inside(items, index, q[1], q[2], q[3], q[4]).ret = {}
           /\ intersecting(items, index, q[1], q[2], q[3], q[4]).ret = {}

\* C14 as claimed: on an empty index (sides absent or present and empty) at,
\* inside and intersecting return the empty set, nearest and closest return
\* no object, and none of the five fails, for any arguments.
C14_EmptyIndexNeverFails ==
    items = <<>> =>
        /\ EmptyIndexSelections
        /\ \A obj \in Objects, side \in Sides :
               LET r == closest(items, index, obj, side)
               IN  r.exc = "" /\ r.ret = {}

\* C14, amended: on an empty index at, inside and intersecting return the
\* empty set and nearest returns no object, for any arguments; closest fails
\* with KeyError for every object and side, as no object is managed, and
\* builds no side of the index.
C14_EmptyIndexQueries ==
    items = <<>> =>
        /\ EmptyIndexSelections
        /\ \A obj \in Objects, side \in Sides :
               LET r == closest(items, index, obj, side)
               IN  r.exc = "KeyError" /\ r.ret = {} /\ r.index = index

\* C14: every object has been removed or cleared, a query has left sides
\* present and empty while others are absent, and closest has just failed.
C14_Witness ==
    /\ items = <<>>
    /\ PresentSides # {} /\ PresentSides # Sides
    /\ \A side \in PresentSides : index[side].objects = <<>>
    /\ exc = <<"closest", "KeyError">>

(***************************************************************************)
(* Relations between at, inside and intersecting.                          *)
(***************************************************************************)
\* C15: for every managed object with rectangle (l, t, r, b), at at the
\* center ((l + r) / 2, (t + b) / 2), which need not be a point of the
\* integer grid, returns a set that includes the object.
C15_CenterRoundTrip ==
    \A o \in Keys(items) :
        o \in at_half(items, index,
                      Stored(o, Left) + Stored(o, Right),
                      Stored(o, Top) + Stored(o, Bottom))

\* C15: sides are present, one of them maintained by add, and a managed
\* object whose center has a half for a coordinate is returned by at at
\* its center while another managed object is not.
C15_Witness ==
    /\ MaintainedSides # {}
    /\ \E o \in Keys(items) :
           LET x2 == Stored(o, Left) + Stored(o, Right)
               y2 == Stored(o, Top) + Stored(o, Bottom)
           IN  /\ x2 % 2 = 1 \/ y2 % 2 = 1
               /\ o \in at_half(items, index, x2, y2)
               /\ at_half(items, index, x2, y2) # Keys(items)

\* whether at returns the object for the point of a rectangle that is the
\* top left corner of what the rectangle and the object have in common
AtSharedPoint(o, q) ==
    LET x == IF Stored(o, Left) > q[1] THEN Stored(o, Left) ELSE q[1]
        y == IF Stored(o, Top) > q[2] THEN Stored(o, Top) ELSE q[2]
    IN  /\ x \in q[1]..q[3] /\ y \in q[2]..q[4]
        /\ o \in at(items, index, x, y).ret

\* C16: for every query rectangle with left < right and top < bottom (all
\* objects have left < right and top < bottom), the objects inside it are
\* among those intersecting it, and each of those is returned by at for
\* a point of the rectangle, so that it is in the union of at over the
\* points of the rectangle.
C16_InsideIntersectingAt ==
    \A q \in QueryRects :
        LET ins == inside(items, index, q[1], q[2], q[3], q[4]).ret
            int == intersecting(items, index, q[1], q[2], q[3], q[4]).ret
        IN  /\ ins \subseteq int
            /\ \A o \in int : AtSharedPoint(o, q)

\* C16: sides are present and for some query rectangle an object is inside
\* it, another intersects it without being inside, and a third does not
\* intersect it.
C16_Witness ==
    /\ PresentSides # {}
    /\ \E q \in QueryRects :
           LET ins == inside(items, index, q[1], q[2], q[3], q[4]).ret
               int == intersecting(items, index, q[1], q[2], q[3], q[4]).ret
           IN  /\ ins # {}
               /\ ins # int
               /\ int # Keys(items)
               /\ \A o \in int : AtSharedPoint(o, q)

(***************************************************************************)
(* When a side of the index is built.                                      *)
(***************************************************************************)
PresentIn(ix) == {side \in Sides : ix[side].present}

\* whether an object with these coordinates passes a test of _test
Holds(coords, t) ==
    IF t.meth = "_smaller"
    THEN Coord(coords, t.side) <= t.value
    ELSE Coord(coords, t.side) >= t.value

\* whether some managed object passes the first n tests
Running(tests, n) ==
    \E k \in 1..Len(items) : \A j \in 1..n : Holds(items[k].coords, tests[j])

\* the number of tests a query evaluates: the first test, and every test
\* before which some object has passed all the tests so far
RECURSIVE Evaluated(_, _)
Evaluated(tests, n) ==
    IF n < Len(tests) /\ Running(tests, n) THEN Evaluated(tests, n + 1) ELSE n

\* the sides of the tests a query evaluates
AskedSides(tests) == {tests[k].side : k \in 1..Evaluated(tests, 1)}

AtTests(x, y) == <<Smaller(Top, y), Larger(Bottom, y), Smaller(Left, x), Larger(Right, x)>>
InsideTests(q) == <<Larger(Top, q[2]), Smaller(Bottom, q[4]), Larger(Left, q[1]), Smaller(Right, q[3])>>
IntersectingTests(q) == <<Smaller(Top, q[4]), Larger(Bottom, q[2]), Smaller(Left, q[3]), Larger(Right, q[1])>>

\* the sides nearest asks for: those of at, and all four when no object
\* contains the point
NearestSides(x, y) ==
    IF Running(AtTests(x, y), 4) THEN AskedSides(AtTests(x, y)) ELSE Sides

\* the index ix2 a query leaves, given the sides it asks for: a present side
\* is what it was, an absent side that is asked for is built from the
\* items, and any other absent side stays absent
QueryBuilds(ix2, asked) ==
    \A side \in Sides :
        IF index[side].present THEN ix2[side] = index[side]
        ELSE IF side \in asked THEN ix2[side] = BuildSide(items, side)
        ELSE ix2[side] = Absent

\* C19: a side is built from the items only by a query that evaluates a
\* selection on a side that is absent.  add and remove build no absent
\* side; a query builds the absent sides of the tests it evaluates and not
\* those of the tests that remain when the running intersection has become
\* empty; no query rebuilds a present side, so that the same query asked
\* again builds nothing.
C19_LazyBuild ==
    /\ \A obj \in Objects :
           /\ PresentIn(add(items, index, obj).index) = PresentSides
           /\ PresentIn(remove(items, index, obj).index) = PresentSides
    /\ \A x, y \in QueryCoords :
           LET a == at(items, index, x, y).index
               n == nearest(items, index, x, y).index
           IN  /\ QueryBuilds(a, AskedSides(AtTests(x, y)))
               /\ a # index => at(items, a, x, y).index = a
               /\ QueryBuilds(n, NearestSides(x, y))
               /\ n # index => nearest(items, n, x, y).index = n
    /\ \A q \in QueryRects :
           LET i == inside(items, index, q[1], q[2], q[3], q[4]).index
               j == intersecting(items, index, q[1], q[2], q[3], q[4]).index
           IN  /\ QueryBuilds(i, AskedSides(InsideTests(q)))
               /\ i # index => inside(items, i, q[1], q[2], q[3], q[4]).index = i
               /\ QueryBuilds(j, AskedSides(IntersectingTests(q)))
               /\ j # index => intersecting(items, j, q[1], q[2], q[3], q[4]).index = j
    /\ \A obj \in Objects, side \in Sides :
           LET c == closest(items, index, obj, side).index
           IN  /\ QueryBuilds(c, IF obj \in Keys(items) THEN {AnchorSide(side)} ELSE {})
               /\ c # index => closest(items, c, obj, side).index = c

\* C19: two objects are managed and the Top, Bottom and Left sides are
\* present while Right is absent: a query has stopped after its test on
\* Left, and at, asked for a point where its third test leaves no object,
\* builds nothing.
C19_Witness ==
    /\ Len(items) >= 2
    /\ PresentSides = {Top, Bottom, Left}
    /\ \E x, y \in QueryCoords :
           /\ AskedSides(AtTests(x, y)) = {Top, Bottom, Left}
           /\ at(items, index, x, y).ret = {}
           /\ at(items, index, x, y).index = index

(***************************************************************************)
(* The order of entries with the same coordinate; closest's scan.          *)
(***************************************************************************)
\* C17: when add inserts into a present side where entries with the new
\* object's coordinate exist, the new entry is placed after all of them, so
\* that entries with the same coordinate are in insertion order and every
\* present side is the sequence a stable-sort rebuild from the items gives.
C17_TiesAfterEqual ==
    /\ \A obj \in Objects \ Keys(items) : \A side \in PresentSides :
           LET e == add(items, index, obj).index[side]
               i == CHOOSE k \in 1..Len(e.objects) : e.objects[k] = obj
           IN  \A k \in 1..Len(e.objects) :
                   (k # i /\ e.indices[k] = e.indices[i]) => k < i
    /\ \A side \in PresentSides : index[side] = BuildSide(items, side)

\* the other objects in the order closest scans them for obj and side
ScanOthers(obj, side) ==
    LET s == _sorted(items, index, AnchorSide(side)).val
        i == ListIndex(s.objects, obj)
        direction == IF side < Right THEN -1 ELSE 1
    IN  PySlice(s.objects, i + direction, direction)

\* twice the gap along the axis and twice the lateral difference between
\* obj and a candidate o, as closest computes them (d and dlat)
Gap2(obj, o, side) == 2 * Abs(Stored(o, AnchorSide(side)) - Stored(obj, AnchorSide(side)))
DLat2(obj, o, side) == Abs(Lat(ItemCoords(items, o), side) - Lat(ItemCoords(items, obj), side))

\* the candidates of the scan whose lateral difference is below their gap
Qualifying(obj, side) ==
    {o \in ToSet(ScanOthers(obj, side)) : DLat2(obj, o, side) < Gap2(obj, o, side)}

\* C18: for any integer coordinates, negative ones included, closest(obj,
\* side) returns a qualifying candidate (lateral difference below the gap
\* along the axis, both as closest computes them) whose combined distance
\* is minimal among the qualifying candidates of the scan, and returns no
\* object only if no candidate qualifies: the scan stops early only after a
\* candidate's gap exceeds the best combined distance found so far.
C18_ClosestMinimal ==
    \A obj \in Keys(items), side \in Sides :
        LET ret == closest(items, index, obj, side).ret
            Q == Qualifying(obj, side)
        IN  /\ ret = {} <=> Q = {}
            /\ \A o \in ret :
                   /\ o \in Q
                   /\ \A p \in Q : DLat2(obj, o, side) + Gap2(obj, o, side)
                                        <= DLat2(obj, p, side) + Gap2(obj, p, side)

\* C20: closest(obj, side) is determined by the items alone: an instance
\* whose sides were maintained by add and an instance with the same items
\* in the same order whose sides are built lazily (none is present) return
\* the same object, also when candidates have the same anchor coordinate
\* and the same combined distance.
C20_ClosestHistoryIndependent ==
    \A obj \in Keys(items), side \in Sides :
        closest(items, index, obj, side).ret = closest(items, NoIndex, obj, side).ret

====
